---- MODULE Spec2Model ----
(***************************************************************************)
(* A model of the alx-backend-python teaching scripts:                     *)
(*   python-decorators-0x01/1-with_db_connection.py   (SpecConn)           *)
(*   python-decorators-0x01/2-transactional.py        (SpecTx)             *)
(*   python-decorators-0x01/3-retry_on_failure.py     (SpecRetry)          *)
(*   python-decorators-0x01/4-cache_query.py          (SpecCache)          *)
(*   python-generators-0x00/2-lazy_paginate.py        (SpecPage)           *)
(*   python-context-async-perations-0x02/3-concurrent.py (SpecAsync)       *)
(* Every script is a standalone program, so every script has its own       *)
(* specification; the variables of the scripts that do not run stay at     *)
(* their initial values.                                                   *)
(*                                                                         *)
(* Python values are records tagged by t: None, a list object (obj is the  *)
(* identity of the list, rows its content), an exception (type, and at:    *)
(* the occurrence that raised it).  "Failure" is a Python Exception, the   *)
(* only thing the except clauses and the retry loop of the scripts catch.  *)
(***************************************************************************)
EXTENDS Integers, Sequences, FiniteSets, TLC

VARIABLES
    \* ---- one invocation of a decorated function (decorator scripts)
    pc,             \* position of the running invocation
    conn,           \* handle returned by sqlite3.connect for this invocation (0: none)
    handles,        \* every handle ever opened: <<[open, closes]>>, index = handle id
    exc,            \* exception in flight in this invocation (NoExc: none)
    ret,            \* value being returned by the innermost wrapper
    outcome,        \* what the caller of the decorated function observed
    ncalls,         \* invocations started so far
    invoked,        \* times the wrapped function was invoked in this invocation
    \* ---- 4-cache_query.py
    query_cache,    \* the global dict: query string -> stored result
    cache0,         \* query_cache as it was when this invocation started
    query,          \* argument: the query string
    param,          \* argument: the additional positional arguments (*args)
    stmts,          \* statements executed (cursor.execute) in this invocation
    nexec,          \* calls of the wrapped function so far (identity of list objects)
    prevFailed,     \* the previous invocation failed during a miss on this same query
    \* ---- 3-retry_on_failure.py
    retries,        \* decorator argument
    attempts,       \* local variable of the retry wrapper
    sleeps,         \* time.sleep(delay) calls in this invocation
    firstSuccess,   \* the wrapped operation: first invocation that succeeds (0: never)
    calledWith,     \* the argument (conn) of every invocation of the wrapped operation
    connects,       \* sqlite3.connect calls in this invocation
    handles0,       \* handles as it was when this invocation started
    \* ---- 1-with_db_connection.py, 2-transactional.py (users.db)
    db,             \* committed content of users: id -> email
    view,           \* content as seen through the open connection (uncommitted included)
    db0,            \* db as it was when this invocation started
    user_id,        \* argument
    new_email,      \* argument
    commitAttempts, \* conn.commit() calls in this invocation
    commits,        \* conn.commit() calls that succeeded in this invocation
    rollbacks,      \* conn.rollback() calls in this invocation
    events,         \* the events of this invocation, in order
    \* ---- 2-lazy_paginate.py (table user_data)
    table,          \* the rows of user_data, in the order a scan returns them
    pg_pc,          \* position of the generator lazy_pagination and its consumer
    page_size,      \* argument of lazy_pagination
    offset,         \* local variable of lazy_pagination
    page,           \* local variable of lazy_pagination: the last page fetched
    pages,          \* the pages the consumer has been given, in order
    pg_calls,       \* paginate_users calls so far
    pg_opened,      \* connections opened by paginate_users so far
    pg_closed,      \* connections closed by paginate_users so far
    \* ---- 3-concurrent.py (sample_database.db)
    a_table,        \* the rows of users in sample_database.db, in insertion order
    a_openable,     \* sample_database.db can be opened (it is no directory, ...)
    a_setup,        \* how setup_sample_database ended, and whether the connection
                    \* it left open still holds its lock
    a_exists,       \* the table users exists
    a_main,         \* position of main()
    a_task,         \* the two coroutines: [pc, open, raised, rows, res]
    a_fc,           \* what fetch_concurrently returned, by task
    a_seq,          \* users_seq, older_seq of demonstrate_sequential_vs_concurrent
    a_conc,         \* users_conc, older_conc of demonstrate_sequential_vs_concurrent
    a_results,      \* results of the gather with return_exceptions=True, by task
    a_report,       \* what main printed for each of those results
    \* ---- 0-stream_users.py, 4-stream_ages.py (table user_data)
    st_table,       \* the rows of user_data: [user_id, age], in scan order
    st_gen,         \* which generator runs: "stream_users" or "stream_user_ages"
    st_pc,          \* position of the generator and its consumer
    st_pos,         \* rows the for loop has taken from the cursor
    st_yielded,     \* the values the consumer has been given, in order
    st_conn,        \* the connection: "none", "open" or "closed"
    st_cursor,      \* the cursor: "none", "open" or "closed"
    \* ---- seed.py: insert_data (table user_data)
    sd_csv,         \* the rows of the CSV file: [name, email, age]
    sd_pc,          \* position of insert_data
    sd_i,           \* rows the for loop has taken from the reader
    sd_attempted,   \* the rows (by number) whose INSERT was executed, in order
    sd_errors,      \* "Error inserting row" lines printed
    sd_pending,     \* rows inserted in the open transaction
    sd_table,       \* the committed rows of user_data
    sd_commits,     \* connection.commit() calls
    \* ---- 4-cache_query.py: two invocations of cache_query.wrapper at once
    r_cache,        \* query_cache, shared by the two callers
    r_cache0,       \* query_cache before the two invocations
    r_query,        \* the query string both callers pass
    r_pc,           \* caller -> position in cache_query.wrapper
    r_result,       \* caller -> local result (None: func has not returned)
    r_outcome,      \* caller -> what the caller gets
    r_nexec,        \* executions of the wrapped function so far
    r_writes        \* the callers that ran query_cache[query] = result, in order

frameVars == <<pc, conn, handles, exc, ret, outcome, ncalls, invoked>>
cacheVars == <<query_cache, cache0, query, param, stmts, nexec, prevFailed>>
retryVars == <<retries, attempts, sleeps, firstSuccess, calledWith, connects,
               handles0>>
dbVars    == <<db, view, db0, user_id, new_email, commitAttempts, commits,
               rollbacks, events>>
pageVars  == <<table, pg_pc, page_size, offset, page, pages, pg_calls,
               pg_opened, pg_closed>>
decoVars  == <<frameVars, cacheVars, retryVars, dbVars>>
asyncVars == <<a_table, a_openable, a_setup, a_exists, a_main, a_task, a_fc, a_seq, a_conc,
               a_results, a_report>>
streamVars == <<st_table, st_gen, st_pc, st_pos, st_yielded, st_conn, st_cursor>>
seedVars  == <<sd_csv, sd_pc, sd_i, sd_attempted, sd_errors, sd_pending,
               sd_table, sd_commits>>
raceVars == <<r_cache, r_cache0, r_query, r_pc, r_result, r_outcome, r_nexec,
              r_writes>>
extraVars == <<streamVars, seedVars, raceVars>>
vars      == <<decoVars, pageVars, asyncVars, extraVars>>

(***************************************************************************)
(* Bounds of the model.                                                    *)
(***************************************************************************)
MaxCalls == 3
MaxRetries == 3
MaxRows == 3
MaxPageSize == 3
MaxCsvRows == 3

(***************************************************************************)
(* Python values.                                                          *)
(***************************************************************************)
None == [t |-> "None"]
NoExc == [t |-> "NoExc"]
Exception(type, at) == [t |-> "exc", type |-> type, at |-> at]
Pending == [kind |-> "pending", val |-> None]
Returned(v) == [kind |-> "return", val |-> v]
Raised(e) == [kind |-> "raise", val |-> e]

\* What the caller observes when a wrapper is left: the exception in flight,
\* or else the returned value.
Deliver(e, v) == IF e # NoExc THEN Raised(e) ELSE Returned(v)

(***************************************************************************)
(* with_db_connection: the connection handle.                              *)
(***************************************************************************)
\* conn = sqlite3.connect('users.db'): a new open handle
Connect(hs) == Append(hs, [open |-> TRUE, closes |-> 0])

\* conn.close()
Close(hs, c) == [hs EXCEPT ![c] = [open |-> FALSE, closes |-> hs[c].closes + 1]]

FrameInit ==
    /\ pc = "idle"
    /\ conn = 0
    /\ handles = <<>>
    /\ exc = NoExc
    /\ ret = None
    /\ outcome = Pending
    /\ ncalls = 0
    /\ invoked = 0

\* The interpreter is between two invocations.
AtRest == pc \in {"idle", "returned"}

(***************************************************************************)
(* 4-cache_query.py                                                        *)
(***************************************************************************)
Queries == {"SELECT * FROM users", "SELECT * FROM users WHERE age > ?"}
\* The additional arguments of a call: none, as in the script, or one bind
\* parameter.
Params == {<< >>, <<25>>, <<40>>}

\* cursor.execute(query); cursor.fetchall(): the rows the database answers,
\* a new list object at every execution.
FetchAll(q, n) == [t |-> "list", obj |-> n, rows |-> <<q>>]

CacheInit ==
    /\ query_cache = << >>
    /\ cache0 = << >>
    /\ query = "SELECT * FROM users"
    /\ param = << >>
    /\ stmts = 0
    /\ nexec = 0
    /\ prevFailed = FALSE

\* if query in query_cache
CacheHit_never(q, c) == FALSE
CacheHit(q, c) == q \in DOMAIN c

\* query_cache[query] = result
CacheStore_evicts(c, q, r) == [k \in {q} |-> r]
CacheStore_skip(c, q, r) == c
CacheStore(c, q, r) ==
    [k \in DOMAIN c \cup {q} |-> IF k = q THEN r ELSE c[k]]

\* fetch_users_with_cache(query=q): with_db_connection.wrapper is entered and
\* connects; a failing connect raises before the try block.
cache_call(q, p) ==
    /\ AtRest
    /\ ncalls < MaxCalls
    /\ ncalls' = ncalls + 1
    /\ query' = q
    /\ param' = p
    /\ cache0' = query_cache
    /\ prevFailed' = (/\ pc = "returned"
                      /\ outcome.kind = "raise"
                      /\ invoked = 1
                      /\ query = q)
    /\ invoked' = 0
    /\ stmts' = 0
    /\ ret' = None
    /\ \/ /\ handles' = Connect(handles)
          /\ conn' = Len(handles) + 1
          /\ exc' = NoExc
          /\ outcome' = Pending
          /\ pc' = "lookup"
       \/ /\ exc' = Exception("ConnectError", ncalls + 1)
          /\ outcome' = Raised(exc')
          /\ conn' = 0
          /\ pc' = "returned"
          /\ UNCHANGED handles
    /\ UNCHANGED <<pageVars, asyncVars, extraVars>>
    /\ UNCHANGED <<query_cache, nexec, retryVars, dbVars>>

\* cache_lookup with a key made of the query string and the additional
\* arguments: a stored list is a hit only for the arguments it was computed
\* for, and only a call without additional arguments ever stores one
cache_lookup_keyedOnArgs ==
    /\ pc = "lookup"
    /\ IF /\ CacheHit(query, query_cache)
          /\ param = << >>
       THEN /\ ret' = query_cache[query]
            /\ pc' = "finally"
       ELSE /\ pc' = "exec"
            /\ UNCHANGED ret
    /\ UNCHANGED <<pageVars, asyncVars, extraVars>>
    /\ UNCHANGED <<conn, handles, exc, outcome, ncalls, invoked, cacheVars,
                   retryVars, dbVars>>

\* cache_query.wrapper: hit returns the stored object, miss goes on to func
cache_lookup ==
    /\ pc = "lookup"
    /\ IF CacheHit(query, query_cache)
       THEN /\ ret' = query_cache[query]
            /\ pc' = "finally"
       ELSE /\ pc' = "exec"
            /\ UNCHANGED ret
    /\ UNCHANGED <<pageVars, asyncVars, extraVars>>
    /\ UNCHANGED <<conn, handles, exc, outcome, ncalls, invoked, cacheVars,
                   retryVars, dbVars>>

\* cache_exec with the store moved into a finally clause: the entry is
\* written even when func has raised
cache_exec_storesFailure ==
    /\ pc = "exec"
    /\ invoked' = invoked + 1
    /\ nexec' = nexec + 1
    /\ \/ /\ param = << >>
          /\ stmts' = stmts + 1
          /\ ret' = FetchAll(query, nexec + 1)
          /\ pc' = "store"
          /\ UNCHANGED exc
       \/ /\ param = << >>
          /\ stmts' = stmts + 1
          /\ exc' = Exception("OperationalError", nexec + 1)
          /\ pc' = "store"
          /\ ret' = None
       \/ /\ param # << >>
          /\ exc' = Exception("TypeError", nexec + 1)
          /\ pc' = "store"
          /\ ret' = None
          /\ UNCHANGED stmts
    /\ UNCHANGED <<pageVars, asyncVars, extraVars>>
    /\ UNCHANGED <<conn, handles, outcome, ncalls, query_cache, cache0, query,
                   param, prevFailed, retryVars, dbVars>>

\* result = func(conn, query, *args, **kwargs): fetch_users_with_cache takes
\* (conn, query) and nothing else, so a call with additional arguments raises
\* TypeError before its body runs; without them the body executes the
\* statement and returns the rows, or raises
cache_exec ==
    /\ pc = "exec"
    /\ invoked' = invoked + 1
    /\ nexec' = nexec + 1
    /\ \/ /\ param = << >>
          /\ stmts' = stmts + 1
          /\ ret' = FetchAll(query, nexec + 1)
          /\ pc' = "store"
          /\ UNCHANGED exc
       \/ /\ param = << >>
          /\ stmts' = stmts + 1
          /\ exc' = Exception("OperationalError", nexec + 1)
          /\ pc' = "finally"
          /\ UNCHANGED ret
       \/ /\ param # << >>
          /\ exc' = Exception("TypeError", nexec + 1)
          /\ pc' = "finally"
          /\ UNCHANGED <<ret, stmts>>
    /\ UNCHANGED <<pageVars, asyncVars, extraVars>>
    /\ UNCHANGED <<conn, handles, outcome, ncalls, query_cache, cache0, query,
                   param, prevFailed, retryVars, dbVars>>

\* query_cache[query] = result; return result
cache_store ==
    /\ pc = "store"
    /\ query_cache' = CacheStore(query_cache, query, ret)
    /\ pc' = "finally"
    /\ UNCHANGED <<pageVars, asyncVars, extraVars>>
    /\ UNCHANGED <<conn, handles, exc, ret, outcome, ncalls, invoked, cache0,
                   query, param, stmts, nexec, prevFailed, retryVars, dbVars>>

\* finally: conn.close()
cache_finally ==
    /\ pc = "finally"
    /\ handles' = Close(handles, conn)
    /\ pc' = "deliver"
    /\ UNCHANGED <<pageVars, asyncVars, extraVars>>
    /\ UNCHANGED <<conn, exc, ret, outcome, ncalls, invoked, cacheVars,
                   retryVars, dbVars>>

\* the value or the exception leaves with_db_connection.wrapper
cache_deliver ==
    /\ pc = "deliver"
    /\ outcome' = Deliver(exc, ret)
    /\ pc' = "returned"
    /\ UNCHANGED <<pageVars, asyncVars, extraVars>>
    /\ UNCHANGED <<conn, handles, exc, ret, ncalls, invoked, cacheVars,
                   retryVars, dbVars>>

(***************************************************************************)
(* Claims about 4-cache_query.py, checked under SpecCache.                 *)
(***************************************************************************)
\* The invocation has ended and its connection had been opened.
CacheCallDone == pc = "returned" /\ conn # 0

\* C1: a call with a query string that is not yet a key invokes the wrapped
\* function exactly once and, when the function returns, stores the new list
\* object under that string and returns it; a call with a string that is a key
\* returns the very object that is stored, invokes nothing and leaves the
\* cache as it was.
C1_MissOnceThenHit ==
    CacheCallDone =>
        IF query \notin DOMAIN cache0
        THEN /\ invoked = 1
             /\ outcome.kind = "return" =>
                   /\ query \in DOMAIN query_cache
                   /\ query_cache[query] = outcome.val
                   /\ outcome.val = FetchAll(query, nexec)
                   /\ \A k \in DOMAIN cache0 : query_cache[k] = cache0[k]
        ELSE /\ invoked = 0
             /\ outcome = Returned(cache0[query])
             /\ query_cache = cache0

\* A hit that follows a miss of an earlier invocation: the object returned was
\* made by an execution older than the last one.
C1_Witness ==
    /\ CacheCallDone
    /\ query \in DOMAIN cache0
    /\ outcome.kind = "return"
    /\ outcome.val.obj < nexec

\* C7 as stated: a call with a cached query string opens no database
\* connection and executes no statement.
C7_HitOpensNoConnection ==
    (pc = "returned" /\ query \in DOMAIN cache0) => (conn = 0 /\ stmts = 0)

\* C7 as amended: the connection is the outermost step.  A call with a cached
\* query string first opens a connection (and raises when that fails); then
\* the lookup returns the stored object without invoking the wrapped function
\* and without executing a statement, and the connection is closed.
C7_HitInsideConnection ==
    (pc = "returned" /\ query \in DOMAIN cache0) =>
        /\ stmts = 0
        /\ invoked = 0
        /\ IF conn # 0
           THEN /\ outcome = Returned(cache0[query])
                /\ handles[conn] = [open |-> FALSE, closes |-> 1]
           ELSE outcome.kind = "raise" /\ outcome.val.type = "ConnectError"

C7_Witness ==
    /\ CacheCallDone
    /\ query \in DOMAIN cache0
    /\ outcome.kind = "return"
    /\ handles[conn].closes = 1
    /\ stmts = 0

\* C8: when the wrapped function raises during a miss, the caller gets that
\* exception and query_cache is unchanged, the query string is still no key,
\* and an invocation with the same string right after it invokes the wrapped
\* function again.
C8_FailureNotCached ==
    /\ (pc = "returned" /\ exc # NoExc) =>
          /\ outcome = Raised(exc)
          /\ query_cache = cache0
          /\ (conn # 0 => query \notin DOMAIN query_cache)
    /\ (CacheCallDone /\ prevFailed) => invoked = 1

\* The invocation after a failed miss, with the same query string.
C8_Witness ==
    /\ CacheCallDone
    /\ prevFailed
    /\ invoked = 1
    /\ outcome.kind = "return"

\* Every key of c holds the list an execution of that very string returned,
\* one of the first n executions.
CacheHoldsResults(c, n) ==
    \A k \in DOMAIN c : \E i \in 1..n : c[k] = FetchAll(k, i)

\* C17: across the invocations of one process, one after the other, no step
\* removes a key of query_cache or changes the object stored under it, and
\* every key holds the rows an execution of that query string has returned.
C17_CacheOnlyGrows ==
    [][/\ \A k \in DOMAIN query_cache :
              /\ k \in DOMAIN query_cache'
              /\ query_cache'[k] = query_cache[k]
       /\ CacheHoldsResults(query_cache', nexec')]_vars

\* Both query strings are keys after three invocations, one of which ended
\* without adding a key.
C17_Witness ==
    /\ pc = "returned"
    /\ ncalls = 3
    /\ DOMAIN query_cache = Queries
    /\ query_cache = cache0
    /\ \A k \in Queries : query_cache[k].rows[1] = k

\* C21: hit or miss depends on the query string only.  The keys of
\* query_cache are query strings; the wrapped function is reached only when
\* the string was no key; an invocation whose string was a key invokes
\* nothing, executes no statement and returns the stored list, whatever
\* additional arguments it passes: they are not compared with the arguments
\* of the call that stored the list.
C21_KeyIsQueryStringAlone ==
    /\ DOMAIN query_cache \subseteq Queries
    /\ pc \in {"exec", "store"} => query \notin DOMAIN cache0
    /\ CacheCallDone => ((invoked = 0) = (query \in DOMAIN cache0))
    /\ (CacheCallDone /\ query \in DOMAIN cache0) =>
          /\ stmts = 0
          /\ outcome = Returned(cache0[query])
          /\ query_cache = cache0

\* A hit of a call that passes a bind parameter: the caller gets the list an
\* earlier call, one with other arguments (none), has stored, though the
\* same call on a miss raises TypeError.
C21_Witness ==
    /\ CacheCallDone
    /\ query \in DOMAIN cache0
    /\ invoked = 0
    /\ outcome.kind = "return"
    /\ outcome.val.rows = <<query>>
    /\ param # << >>

(***************************************************************************)
(* 3-retry_on_failure.py                                                   *)
(***************************************************************************)
RetryInit ==
    /\ retries = 3
    /\ attempts = 0
    /\ sleeps = 0
    /\ firstSuccess = 0
    /\ calledWith = << >>
    /\ connects = 0
    /\ handles0 = << >>

\* while attempts < retries
RetryLoopGuard(a, n) == a < n

\* if attempts >= retries: raise
RetryExhausted_offByOne(a, n) == a > n
RetryExhausted(a, n) == a >= n

\* The body of fetch_users_with_retry, when it succeeds: a new list object.
RetryFetchAll(n) == [t |-> "list", obj |-> n, rows |-> <<"SELECT * FROM users">>]

\* A call of a function decorated with with_db_connection outside
\* retry_on_failure(retries=n), whose body first succeeds at its k-th
\* invocation (k = 0: it always raises).  with_db_connection.wrapper connects;
\* a failing connect raises before the try block.  Then the retry wrapper
\* starts: attempts = 0.
\* retry_call with the decorators stacked the other way round, retry_on_failure
\* outside with_db_connection: a failed sqlite3.connect lands in the except
\* clause of the retry loop
retry_call_retriesConnect(n, k) ==
    /\ AtRest
    /\ ncalls < MaxCalls
    /\ ncalls' = ncalls + 1
    /\ retries' = n
    /\ firstSuccess' = k
    /\ attempts' = 0
    /\ sleeps' = 0
    /\ invoked' = 0
    /\ calledWith' = << >>
    /\ connects' = 1
    /\ handles0' = handles
    /\ ret' = None
    /\ outcome' = Pending
    /\ \/ /\ handles' = Connect(handles)
          /\ conn' = Len(handles) + 1
          /\ exc' = NoExc
          /\ pc' = "loop"
       \/ /\ exc' = Exception("ConnectError", 0)
          /\ conn' = 0
          /\ pc' = "except"
          /\ UNCHANGED handles
    /\ UNCHANGED <<pageVars, asyncVars, extraVars>>
    /\ UNCHANGED <<cacheVars, dbVars>>

retry_call(n, k) ==
    /\ AtRest
    /\ ncalls < MaxCalls
    /\ ncalls' = ncalls + 1
    /\ retries' = n
    /\ firstSuccess' = k
    /\ attempts' = 0
    /\ sleeps' = 0
    /\ invoked' = 0
    /\ calledWith' = << >>
    /\ connects' = 1
    /\ handles0' = handles
    /\ ret' = None
    /\ \/ /\ handles' = Connect(handles)
          /\ conn' = Len(handles) + 1
          /\ exc' = NoExc
          /\ outcome' = Pending
          /\ pc' = "loop"
       \/ /\ exc' = Exception("ConnectError", 0)
          /\ outcome' = Raised(exc')
          /\ conn' = 0
          /\ pc' = "returned"
          /\ UNCHANGED handles
    /\ UNCHANGED <<pageVars, asyncVars, extraVars>>
    /\ UNCHANGED <<cacheVars, dbVars>>

\* while attempts < retries: ... ; a loop that ends falls off the end of the
\* wrapper, which returns None
retry_loop ==
    /\ pc = "loop"
    /\ IF RetryLoopGuard(attempts, retries)
       THEN pc' = "try" /\ UNCHANGED ret
       ELSE pc' = "finally" /\ ret' = None
    /\ UNCHANGED <<pageVars, asyncVars, extraVars>>
    /\ UNCHANGED <<conn, handles, exc, outcome, ncalls, invoked, cacheVars,
                   retryVars, dbVars>>

\* retry_try with with_db_connection inside the retry loop: every attempt
\* opens a connection of its own
retry_try_reconnects ==
    /\ pc = "try"
    /\ invoked' = invoked + 1
    /\ handles' = Connect(handles)
    /\ conn' = Len(handles) + 1
    /\ connects' = connects + 1
    /\ calledWith' = Append(calledWith, conn')
    /\ IF firstSuccess = invoked + 1
       THEN /\ ret' = RetryFetchAll(invoked + 1)
            /\ pc' = "finally"
            /\ UNCHANGED exc
       ELSE /\ exc' = Exception("OperationalError", invoked + 1)
            /\ pc' = "except"
            /\ UNCHANGED ret
    /\ UNCHANGED <<pageVars, asyncVars, extraVars>>
    /\ UNCHANGED <<outcome, ncalls, cacheVars, retries, attempts, sleeps,
                   firstSuccess, handles0, dbVars>>

\* try: return func(*args, **kwargs)
retry_try ==
    /\ pc = "try"
    /\ invoked' = invoked + 1
    /\ calledWith' = Append(calledWith, conn)
    /\ IF firstSuccess = invoked + 1
       THEN /\ ret' = RetryFetchAll(invoked + 1)
            /\ pc' = "finally"
            /\ UNCHANGED exc
       ELSE /\ exc' = Exception("OperationalError", invoked + 1)
            /\ pc' = "except"
            /\ UNCHANGED ret
    /\ UNCHANGED <<pageVars, asyncVars, extraVars>>
    /\ UNCHANGED <<conn, handles, outcome, ncalls, cacheVars, retries, attempts,
                   sleeps, firstSuccess, connects, handles0, dbVars>>

\* retry_except with time.sleep(delay) ahead of the test of attempts: the
\* wrapper pauses after the last failure too
retry_except_sleepsFirst ==
    /\ pc = "except"
    /\ attempts' = attempts + 1
    /\ sleeps' = sleeps + 1
    /\ IF RetryExhausted(attempts + 1, retries)
       THEN /\ pc' = "finally"
            /\ UNCHANGED exc
       ELSE /\ exc' = NoExc
            /\ pc' = "loop"
    /\ UNCHANGED <<pageVars, asyncVars, extraVars>>
    /\ UNCHANGED <<conn, handles, ret, outcome, ncalls, invoked, cacheVars,
                   retries, firstSuccess, calledWith, connects, handles0, dbVars>>

\* except Exception as e: attempts += 1; if attempts >= retries: raise;
\* time.sleep(delay)
retry_except ==
    /\ pc = "except"
    /\ attempts' = attempts + 1
    /\ IF RetryExhausted(attempts + 1, retries)
       THEN /\ pc' = "finally"
            /\ UNCHANGED <<exc, sleeps>>
       ELSE /\ exc' = NoExc
            /\ sleeps' = sleeps + 1
            /\ pc' = "loop"
    /\ UNCHANGED <<pageVars, asyncVars, extraVars>>
    /\ UNCHANGED <<conn, handles, ret, outcome, ncalls, invoked, cacheVars,
                   retries, firstSuccess, calledWith, connects, handles0, dbVars>>

\* finally: conn.close()
retry_finally ==
    /\ pc = "finally"
    /\ handles' = Close(handles, conn)
    /\ pc' = "deliver"
    /\ UNCHANGED <<pageVars, asyncVars, extraVars>>
    /\ UNCHANGED <<conn, exc, ret, outcome, ncalls, invoked, cacheVars,
                   retryVars, dbVars>>

\* the value or the exception leaves with_db_connection.wrapper
retry_deliver ==
    /\ pc = "deliver"
    /\ outcome' = Deliver(exc, ret)
    /\ pc' = "returned"
    /\ UNCHANGED <<pageVars, asyncVars, extraVars>>
    /\ UNCHANGED <<conn, handles, exc, ret, ncalls, invoked, cacheVars,
                   retryVars, dbVars>>

(***************************************************************************)
(* Claims about 3-retry_on_failure.py, checked under SpecRetry.            *)
(***************************************************************************)
\* The invocation has ended and the retry wrapper had been entered.
RetryCallDone == pc = "returned" /\ conn # 0

\* C2: with retries = n >= 1, an operation that raises at every invocation
\* (or first succeeds after more than n) is invoked exactly n times and the
\* caller gets the exception of the n-th invocation; an operation that first
\* succeeds at invocation k <= n is invoked exactly k times and the caller
\* gets its result.
C2_RetryCount ==
    (RetryCallDone /\ retries >= 1) =>
        IF firstSuccess \in 1..retries
        THEN /\ invoked = firstSuccess
             /\ outcome = Returned(RetryFetchAll(firstSuccess))
        ELSE /\ invoked = retries
             /\ outcome = Raised(Exception("OperationalError", retries))

\* Exhaustion after three invocations, the configuration of the script.
C2_Witness ==
    /\ RetryCallDone
    /\ retries = 3
    /\ firstSuccess = 0
    /\ invoked = 3
    /\ outcome.kind = "raise"

\* A success at the second of three invocations.
C2_WitnessSuccess ==
    /\ RetryCallDone
    /\ retries = 3
    /\ firstSuccess = 2
    /\ invoked = 2
    /\ outcome.kind = "return"

\* C3 as stated: with retries = 0 or retries = 1 the wrapped operation is
\* invoked exactly once, there is no pause, and a failure of that invocation
\* reaches the caller.
C3_SingleAttempt ==
    (RetryCallDone /\ retries \in {0, 1}) =>
        /\ invoked = 1
        /\ sleeps = 0
        /\ (firstSuccess # 1 => outcome.kind = "raise")

\* The wrapper is past its last attempt: it runs the finally clause of
\* with_db_connection, or has left it.
RetryPastAttempts == conn # 0 /\ pc \in {"finally", "deliver", "returned"}

\* C14: time.sleep(delay) runs only between a failed attempt and the next
\* attempt.  When an attempt starts, every earlier attempt has been followed
\* by one pause; once the last attempt is over there is one pause fewer than
\* attempts, so none follows a success or the terminal failure: k - 1 pauses
\* for a success at attempt k, retries - 1 for an exhaustion.  Every attempt
\* gets the same argument, the connection of the invocation.
C14_PausesOnlyBetweenAttempts ==
    /\ (conn # 0 /\ pc \in {"loop", "try"}) => sleeps = invoked
    /\ (conn # 0 /\ pc = "except") => sleeps = invoked - 1
    /\ (RetryPastAttempts /\ invoked >= 1) => sleeps = invoked - 1
    /\ (RetryCallDone /\ outcome.kind = "return" /\ invoked >= 1) =>
            /\ firstSuccess = invoked
            /\ sleeps = firstSuccess - 1
    /\ (RetryCallDone /\ outcome.kind = "raise") =>
            /\ invoked = retries
            /\ sleeps = retries - 1
    /\ conn # 0 => \A i \in 1..Len(calledWith) : calledWith[i] = conn

\* An exhaustion after three attempts with two pauses.
C14_Witness ==
    /\ RetryCallDone
    /\ retries = 3
    /\ outcome.kind = "raise"
    /\ invoked = 3
    /\ sleeps = 2
    /\ calledWith = <<conn, conn, conn>>

\* C15: in fetch_users_with_retry a sqlite3.connect that raises ends the
\* invocation at once: the caller gets that exception, the wrapped operation
\* has not been invoked, there was no pause, and sqlite3.connect was called
\* once.  The retry loop never runs without a connection.
C15_ConnectFailureSurfaces ==
    /\ conn = 0 => (AtRest /\ invoked = 0 /\ sleeps = 0 /\ attempts = 0)
    /\ (pc = "returned" /\ conn = 0) =>
            /\ outcome = Raised(Exception("ConnectError", 0))
            /\ connects = 1
            /\ handles = handles0
            /\ calledWith = << >>

\* A failed open under the retry policy of the script, retries = 3.
C15_Witness ==
    /\ pc = "returned"
    /\ conn = 0
    /\ retries = 3
    /\ outcome = Raised(Exception("ConnectError", 0))
    /\ invoked = 0

\* Number of conn.close() calls recorded in hs.
RECURSIVE Closes(_)
Closes(hs) == IF hs = << >> THEN 0
              ELSE hs[Len(hs)].closes + Closes(SubSeq(hs, 1, Len(hs) - 1))

\* C16: an invocation of fetch_users_with_retry that has connected opens one
\* handle and closes one, whatever the number of attempts: all the attempts
\* get that handle, it stays open while attempts are made, and the earlier
\* handles are not touched.
C16_OneOpenOneClose ==
    /\ conn # 0 =>
            /\ connects = 1
            /\ handles = Connect(handles0) \/ handles = Close(Connect(handles0), conn)
            /\ conn = Len(handles0) + 1
            /\ \A i \in 1..Len(calledWith) : calledWith[i] = conn
    /\ (conn # 0 /\ pc \in {"loop", "try", "except", "finally"}) =>
            /\ handles[conn].open
            /\ Closes(handles) = Closes(handles0)
    /\ RetryCallDone =>
            /\ Len(handles) = Len(handles0) + 1
            /\ Closes(handles) = Closes(handles0) + 1
            /\ ~handles[conn].open

\* Three attempts, the third a success, on one handle closed once.
C16_Witness ==
    /\ RetryCallDone
    /\ retries = 3
    /\ invoked = 3
    /\ outcome.kind = "return"
    /\ calledWith = <<conn, conn, conn>>
    /\ handles[conn] = [open |-> FALSE, closes |-> 1]


(***************************************************************************)
(* users.db, as 1-with_db_connection.py and 2-transactional.py use it: the *)
(* table users, id -> email.  db is what is committed, and what a new      *)
(* connection reads; view is what the open connection reads, its own       *)
(* uncommitted writes included.                                            *)
(***************************************************************************)
UserIds == {1, 2, 3}
NewEmails == {"new@x", "u1@x"}
InitialUsers == [i \in {1, 2} |-> IF i = 1 THEN "u1@x" ELSE "u2@x"]

DbInit ==
    /\ db = InitialUsers
    /\ view = InitialUsers
    /\ db0 = InitialUsers
    /\ user_id = 1
    /\ new_email = "new@x"
    /\ commitAttempts = 0
    /\ commits = 0
    /\ rollbacks = 0
    /\ events = << >>

(***************************************************************************)
(* 1-with_db_connection.py                                                 *)
(***************************************************************************)
\* cursor.execute("SELECT * FROM users WHERE id = ?", (user_id,));
\* cursor.fetchone(): the row, or None
FetchOne(d, uid) ==
    IF uid \in DOMAIN d THEN [t |-> "row", id |-> uid, email |-> d[uid]] ELSE None

\* try: ... finally: conn.close() -- where control goes when func has
\* returned (raised = FALSE) and when it has raised
conn_after_func_noFinally(raised) == IF raised THEN "deliver" ELSE "finally"
conn_after_func(raised) == "finally"

\* get_user_by_id(user_id=uid): with_db_connection.wrapper connects; a failing
\* connect raises before the try block
conn_call(uid) ==
    /\ AtRest
    /\ ncalls < MaxCalls
    /\ ncalls' = ncalls + 1
    /\ user_id' = uid
    /\ invoked' = 0
    /\ ret' = None
    /\ \/ /\ handles' = Connect(handles)
          /\ conn' = Len(handles) + 1
          /\ exc' = NoExc
          /\ outcome' = Pending
          /\ pc' = "func"
       \/ /\ exc' = Exception("ConnectError", 0)
          /\ outcome' = Raised(exc')
          /\ conn' = 0
          /\ pc' = "returned"
          /\ UNCHANGED handles
    /\ UNCHANGED <<pageVars, asyncVars, extraVars>>
    /\ UNCHANGED <<cacheVars, retryVars, db, view, db0, new_email,
                   commitAttempts, commits, rollbacks, events>>

\* result = func(conn, *args, **kwargs): the body of get_user_by_id
conn_func ==
    /\ pc = "func"
    /\ invoked' = invoked + 1
    /\ \/ /\ ret' = FetchOne(db, user_id)
          /\ pc' = conn_after_func(FALSE)
          /\ UNCHANGED exc
       \/ /\ exc' = Exception("OperationalError", invoked + 1)
          /\ pc' = conn_after_func(TRUE)
          /\ UNCHANGED ret
    /\ UNCHANGED <<pageVars, asyncVars, extraVars>>
    /\ UNCHANGED <<conn, handles, outcome, ncalls, cacheVars, retryVars, dbVars>>

\* finally: conn.close()
conn_finally ==
    /\ pc = "finally"
    /\ handles' = Close(handles, conn)
    /\ pc' = "deliver"
    /\ UNCHANGED <<pageVars, asyncVars, extraVars>>
    /\ UNCHANGED <<conn, exc, ret, outcome, ncalls, invoked, cacheVars,
                   retryVars, dbVars>>

\* the value or the exception leaves with_db_connection.wrapper
conn_deliver ==
    /\ pc = "deliver"
    /\ outcome' = Deliver(exc, ret)
    /\ pc' = "returned"
    /\ UNCHANGED <<pageVars, asyncVars, extraVars>>
    /\ UNCHANGED <<conn, handles, exc, ret, ncalls, invoked, cacheVars,
                   retryVars, dbVars>>

(***************************************************************************)
(* Claims about 1-with_db_connection.py, checked under SpecConn.           *)
(***************************************************************************)
\* C4: a handle is closed at most once and is open until then; when the
\* caller has the result or the exception of an invocation that opened a
\* connection, that connection has been closed exactly once, whether the
\* wrapped function returned or raised; between invocations no handle is open.
C4_ClosedExactlyOnce ==
    /\ \A h \in DOMAIN handles :
          /\ handles[h].closes <= 1
          /\ handles[h].open <=> handles[h].closes = 0
    /\ (outcome.kind # "pending" /\ conn # 0) =>
          handles[conn] = [open |-> FALSE, closes |-> 1]
    /\ AtRest => \A h \in DOMAIN handles :
                    handles[h] = [open |-> FALSE, closes |-> 1]
    /\ (pc = "returned" /\ conn # 0) =>
          /\ invoked = 1
          /\ outcome = Deliver(exc, ret)

\* The wrapped function raised, and the caller has the exception.
C4_Witness ==
    /\ pc = "returned"
    /\ conn # 0
    /\ outcome.kind = "raise"
    /\ outcome.val.type = "OperationalError"
    /\ handles[conn].closes = 1
    /\ Len(handles) >= 2

(***************************************************************************)
(* 2-transactional.py                                                      *)
(***************************************************************************)
\* cursor.execute("UPDATE users SET email = ? WHERE id = ?", (new_email, user_id))
\* on the content v: the rows whose id matches get the new email
UpdateEmail(v, uid, email) == [i \in DOMAIN v |-> IF i = uid THEN email ELSE v[i]]

\* conn.commit(), when it succeeds: the committed content and the view
Commit(d, v) == [db |-> v, view |-> v]

\* except Exception: conn.rollback(): the committed content and the view
ExceptRollback_commits(d, v) == [db |-> v, view |-> v]
ExceptRollback(d, v) == [db |-> d, view |-> d]

\* except Exception: ...; raise -- the exception in flight after the clause
Reraise_swallow(e) == NoExc
Reraise(e) == e

\* update_user_email(user_id=uid, new_email=email): with_db_connection.wrapper
\* connects; a failing connect raises before the try block
tx_call(uid, email) ==
    /\ AtRest
    /\ ncalls < MaxCalls
    /\ ncalls' = ncalls + 1
    /\ user_id' = uid
    /\ new_email' = email
    /\ db0' = db
    /\ view' = db
    /\ invoked' = 0
    /\ commitAttempts' = 0
    /\ commits' = 0
    /\ rollbacks' = 0
    /\ ret' = None
    /\ \/ /\ handles' = Connect(handles)
          /\ conn' = Len(handles) + 1
          /\ exc' = NoExc
          /\ outcome' = Pending
          /\ events' = <<"open">>
          /\ pc' = "func"
       \/ /\ exc' = Exception("ConnectError", 0)
          /\ outcome' = Raised(exc')
          /\ conn' = 0
          /\ events' = << >>
          /\ pc' = "returned"
          /\ UNCHANGED handles
    /\ UNCHANGED <<pageVars, asyncVars, extraVars>>
    /\ UNCHANGED <<cacheVars, retryVars, db>>

\* tx_func with a body of update_user_email that ends with conn.close(): the
\* uncommitted UPDATE is gone and the wrapper commits on a closed connection
tx_func_closesConn ==
    /\ pc = "func"
    /\ invoked' = invoked + 1
    /\ \/ /\ view' = db
          /\ handles' = Close(handles, conn)
          /\ ret' = None
          /\ events' = events \o <<"func returned", "close">>
          /\ pc' = "commit"
          /\ UNCHANGED exc
       \/ /\ exc' = Exception("OperationalError", 1)
          /\ events' = Append(events, "func raised")
          /\ pc' = "except"
          /\ UNCHANGED <<view, ret, handles>>
    /\ UNCHANGED <<pageVars, asyncVars, extraVars>>
    /\ UNCHANGED <<conn, outcome, ncalls, cacheVars, retryVars, db,
                   db0, user_id, new_email, commitAttempts, commits, rollbacks>>

\* transactional.wrapper: result = func(conn, *args, **kwargs), the body of
\* update_user_email: the UPDATE is done in the connection's transaction, or
\* it raises and writes nothing
tx_func ==
    /\ pc = "func"
    /\ invoked' = invoked + 1
    /\ \/ /\ view' = UpdateEmail(view, user_id, new_email)
          /\ ret' = None
          /\ events' = Append(events, "func returned")
          /\ pc' = "commit"
          /\ UNCHANGED exc
       \/ /\ exc' = Exception("OperationalError", 1)
          /\ events' = Append(events, "func raised")
          /\ pc' = "except"
          /\ UNCHANGED <<view, ret>>
    /\ UNCHANGED <<pageVars, asyncVars, extraVars>>
    /\ UNCHANGED <<conn, handles, outcome, ncalls, cacheVars, retryVars, db,
                   db0, user_id, new_email, commitAttempts, commits, rollbacks>>

\* tx_commit with conn.commit() after the try statement instead of inside it:
\* a commit that raises is not caught by the except clause
tx_commit_outsideTry ==
    /\ pc = "commit"
    /\ commitAttempts' = commitAttempts + 1
    /\ \/ /\ db' = Commit(db, view).db
          /\ view' = Commit(db, view).view
          /\ commits' = commits + 1
          /\ events' = Append(events, "commit")
          /\ pc' = "finally"
          /\ UNCHANGED exc
       \/ /\ exc' = Exception("CommitError", 2)
          /\ events' = Append(events, "commit failed")
          /\ pc' = "finally"
          /\ UNCHANGED <<db, view, commits>>
    /\ UNCHANGED <<pageVars, asyncVars, extraVars>>
    /\ UNCHANGED <<conn, handles, ret, outcome, ncalls, invoked, cacheVars,
                   retryVars, db0, user_id, new_email, rollbacks>>

\* conn.commit(); return result -- a commit that raises changes nothing and
\* is caught by the except clause
tx_commit ==
    /\ pc = "commit"
    /\ commitAttempts' = commitAttempts + 1
    /\ \/ /\ db' = Commit(db, view).db
          /\ view' = Commit(db, view).view
          /\ commits' = commits + 1
          /\ events' = Append(events, "commit")
          /\ pc' = "finally"
          /\ UNCHANGED exc
       \/ /\ exc' = Exception("CommitError", 2)
          /\ events' = Append(events, "commit failed")
          /\ pc' = "except"
          /\ UNCHANGED <<db, view, commits>>
    /\ UNCHANGED <<pageVars, asyncVars, extraVars>>
    /\ UNCHANGED <<conn, handles, ret, outcome, ncalls, invoked, cacheVars,
                   retryVars, db0, user_id, new_email, rollbacks>>

\* except Exception: conn.rollback(); raise
tx_except ==
    /\ pc = "except"
    /\ db' = ExceptRollback(db, view).db
    /\ view' = ExceptRollback(db, view).view
    /\ rollbacks' = rollbacks + 1
    /\ events' = Append(events, "rollback")
    /\ exc' = Reraise(exc)
    /\ pc' = "finally"
    /\ UNCHANGED <<pageVars, asyncVars, extraVars>>
    /\ UNCHANGED <<conn, handles, ret, outcome, ncalls, invoked, cacheVars,
                   retryVars, db0, user_id, new_email, commitAttempts, commits>>

\* with_db_connection.wrapper: finally: conn.close() -- what the connection
\* has not committed is gone
tx_finally ==
    /\ pc = "finally"
    /\ handles' = Close(handles, conn)
    /\ view' = db
    /\ events' = Append(events, "close")
    /\ pc' = "deliver"
    /\ UNCHANGED <<pageVars, asyncVars, extraVars>>
    /\ UNCHANGED <<conn, exc, ret, outcome, ncalls, invoked, cacheVars,
                   retryVars, db, db0, user_id, new_email, commitAttempts,
                   commits, rollbacks>>

\* the value or the exception leaves with_db_connection.wrapper
tx_deliver ==
    /\ pc = "deliver"
    /\ outcome' = Deliver(exc, ret)
    /\ pc' = "returned"
    /\ UNCHANGED <<pageVars, asyncVars, extraVars>>
    /\ UNCHANGED <<conn, handles, exc, ret, ncalls, invoked, cacheVars,
                   retryVars, dbVars>>

(***************************************************************************)
(* Claims about 2-transactional.py, checked under SpecTx.                  *)
(***************************************************************************)
\* The invocation has ended and the transactional wrapper had been entered.
TxCallDone == pc = "returned" /\ conn # 0

\* The events of the invocation so far.
Happened(e) == \E i \in DOMAIN events : events[i] = e

\* C5: after an invocation whose wrapped operation returned, commit has been
\* called once, and when that commit succeeded nothing was rolled back and
\* the caller has the result; after one whose wrapped operation raised, commit
\* has not been called, rollback has been called once and the caller has the
\* exception of the operation itself.  At no moment has an operation that
\* raised been followed by a commit.
C5_CommitOrRollback ==
    /\ TxCallDone =>
          /\ invoked = 1
          /\ IF Happened("func raised")
             THEN /\ commitAttempts = 0
                  /\ rollbacks = 1
                  /\ outcome = Raised(Exception("OperationalError", 1))
             ELSE /\ Happened("func returned")
                  /\ commitAttempts = 1
                  /\ commits = 1 => (rollbacks = 0 /\ outcome = Returned(None))
    /\ Happened("func raised") => (commitAttempts = 0 /\ commits = 0)

\* The wrapped operation raised and the caller has its exception.
C5_Witness ==
    /\ TxCallDone
    /\ outcome = Raised(Exception("OperationalError", 1))
    /\ rollbacks = 1
    /\ commitAttempts = 0

\* C6: at every moment the committed content is either the content before the
\* invocation or that content with the whole UPDATE applied; a connection
\* that has just been opened reads the committed content; after an invocation
\* that returned, the committed content is the one before it with the UPDATE
\* applied; after an invocation that raised, it is the one before it, whatever
\* the operation had written.
C6_AllOrNothing ==
    /\ \/ db = db0
       \/ commits = 1 /\ db = UpdateEmail(db0, user_id, new_email)
    /\ pc = "func" => view = db
    /\ pc = "returned" =>
          /\ outcome.kind = "return" => db = UpdateEmail(db0, user_id, new_email)
          /\ outcome.kind = "raise" => db = db0
          /\ view = db

\* An invocation that raised after the UPDATE had changed a row.
C6_Witness ==
    /\ TxCallDone
    /\ outcome.kind = "raise"
    /\ outcome.val.type = "CommitError"
    /\ UpdateEmail(db0, user_id, new_email) # db0
    /\ db = db0
    /\ db # InitialUsers

\* The connection of the invocation is open exactly until "close" is logged,
\* "close" is the last event, and commit and rollback are called on an open
\* connection.
TxCloseIsLast ==
    conn # 0 =>
        /\ handles[conn].open = ~Happened("close")
        /\ handles[conn].closes <= 1
        /\ \A i \in DOMAIN events : events[i] = "close" => i = Len(events)
        /\ pc \in {"func", "commit", "except"} => handles[conn].open

\* C19 as stated: the events of an invocation of update_user_email are open,
\* the wrapped operation, then exactly one call of commit or rollback, then
\* close; the connection is not closed before, and commit and rollback are
\* called on an open connection.
C19_ExactlyOneCommitOrRollback ==
    /\ TxCloseIsLast
    /\ TxCallDone =>
          /\ commitAttempts + rollbacks = 1
          /\ events \in {<<"open", "func returned", "commit", "close">>,
                         <<"open", "func returned", "commit failed", "close">>,
                         <<"open", "func raised", "rollback", "close">>}

\* C19 as amended: the events of an invocation of update_user_email are open,
\* the wrapped operation, then a commit that succeeds, or a rollback (the
\* operation raised), or a commit that raises followed by a rollback, then
\* close; the connection is not closed before, and commit and rollback are
\* called on an open connection.
C19_CommitOrRollbackThenClose ==
    /\ TxCloseIsLast
    /\ TxCallDone =>
          /\ commits + rollbacks = 1
          /\ events \in {<<"open", "func returned", "commit", "close">>,
                         <<"open", "func raised", "rollback", "close">>,
                         <<"open", "func returned", "commit failed",
                           "rollback", "close">>}

\* An invocation that has both called commit and called rollback.
C19_Witness ==
    /\ TxCallDone
    /\ commitAttempts = 1
    /\ rollbacks = 1
    /\ events[Len(events)] = "close"
    /\ handles[conn] = [open |-> FALSE, closes |-> 1]

\* C20: when the wrapped operation has returned and conn.commit() raises,
\* rollback is called next, once; the caller gets the exception of the
\* commit and never a result, and nothing of the UPDATE is committed.
C20_FailedCommitRollsBack ==
    /\ Happened("commit failed") =>
          /\ Happened("func returned")
          /\ outcome.kind # "return"
          /\ commits = 0
          /\ pc # "except" => (rollbacks = 1 /\ exc = Exception("CommitError", 2))
    /\ (TxCallDone /\ Happened("commit failed")) =>
          /\ outcome = Raised(Exception("CommitError", 2))
          /\ rollbacks = 1
          /\ db = db0
    /\ \A i \in DOMAIN events :
          (events[i] = "commit failed" /\ i < Len(events)) =>
              events[i + 1] = "rollback"

\* The commit raised, the rollback was called and the caller has the
\* exception of the commit.
C20_Witness ==
    /\ TxCallDone
    /\ Happened("commit failed")
    /\ Happened("rollback")
    /\ outcome = Raised(Exception("CommitError", 2))

(***************************************************************************)
(* 2-lazy_paginate.py                                                      *)
(***************************************************************************)
Min(a, b) == IF a <= b THEN a ELSE b

\* The tables of at most MaxRows rows: user_id is the primary key, so the
\* rows are distinct.
Tables ==
    {t \in UNION {[1..n -> 1..MaxRows] : n \in 0..MaxRows} :
        \A i, j \in DOMAIN t : i # j => t[i] # t[j]}

\* SELECT * FROM user_data LIMIT {page_size} OFFSET {offset}
Limit(t, p, o) == SubSeq(t, o + 1, Min(o + p, Len(t)))

\* offset += page_size
NextOffset_skipsOne(o, p) == o + p + 1
NextOffset(o, p) == o + p

PageOff ==
    /\ table = << >>
    /\ pg_pc = "idle"
    /\ page_size = 1
    /\ offset = 0
    /\ page = << >>
    /\ pages = << >>
    /\ pg_calls = 0
    /\ pg_opened = 0
    /\ pg_closed = 0

\* The table is whatever was seeded; nothing changes it while the script runs.
PageInit ==
    /\ table \in Tables
    /\ pg_pc = "idle"
    /\ page_size = 1
    /\ offset = 0
    /\ page = << >>
    /\ pages = << >>
    /\ pg_calls = 0
    /\ pg_opened = 0
    /\ pg_closed = 0

\* The consumer calls lazy_pagination(p) and asks for the first page:
\* offset = 0, and the loop is entered.
lazy_pagination(p) ==
    /\ pg_pc = "idle"
    /\ page_size' = p
    /\ offset' = 0
    /\ pg_pc' = "connect"
    /\ UNCHANGED <<table, page, pages, pg_calls, pg_opened, pg_closed, decoVars, asyncVars, extraVars>>

\* paginate_users: connection = seed.connect_to_prodev(), which returns None
\* when the connect fails; connection.cursor(...) then raises AttributeError,
\* which leaves the generator
paginate_connect ==
    /\ pg_pc = "connect"
    /\ pg_calls' = pg_calls + 1
    /\ \/ /\ pg_opened' = pg_opened + 1
          /\ pg_pc' = "execute"
       \/ /\ pg_pc' = "raised"
          /\ UNCHANGED pg_opened
    /\ UNCHANGED <<table, page_size, offset, page, pages, pg_closed, decoVars, asyncVars, extraVars>>

\* paginate_users: cursor.execute(...); rows = cursor.fetchall() -- an
\* execute that raises leaves the function, and the generator, with the
\* connection open
paginate_execute ==
    /\ pg_pc = "execute"
    /\ \/ /\ page' = Limit(table, page_size, offset)
          /\ pg_pc' = "close"
       \/ /\ pg_pc' = "raised"
          /\ UNCHANGED page
    /\ UNCHANGED <<table, page_size, offset, pages, pg_calls, pg_opened,
                   pg_closed, decoVars, asyncVars, extraVars>>

\* paginate_close without connection.close(): paginate_users returns rows and
\* leaves its connection open
paginate_close_leaks ==
    /\ pg_pc = "close"
    /\ pg_pc' = "test"
    /\ UNCHANGED <<table, page_size, offset, page, pages, pg_calls, pg_opened,
                   pg_closed, decoVars, asyncVars, extraVars>>

\* paginate_users: connection.close(); return rows
paginate_close ==
    /\ pg_pc = "close"
    /\ pg_closed' = pg_closed + 1
    /\ pg_pc' = "test"
    /\ UNCHANGED <<table, page_size, offset, page, pages, pg_calls, pg_opened,
                   decoVars, asyncVars, extraVars>>

\* lazy_pagination: if not page: break -- else yield page
lazy_yield ==
    /\ pg_pc = "test"
    /\ IF page = << >>
       THEN pg_pc' = "done" /\ UNCHANGED pages
       ELSE pg_pc' = "yielded" /\ pages' = Append(pages, page)
    /\ UNCHANGED <<table, page_size, offset, page, pg_calls, pg_opened,
                   pg_closed, decoVars, asyncVars, extraVars>>

\* The consumer asks for the next page: offset += page_size, and the loop
\* goes round.
lazy_resume ==
    /\ pg_pc = "yielded"
    /\ offset' = NextOffset(offset, page_size)
    /\ pg_pc' = "connect"
    /\ UNCHANGED <<table, page_size, page, pages, pg_calls, pg_opened,
                   pg_closed, decoVars, asyncVars, extraVars>>

(***************************************************************************)
(* Claims about 2-lazy_paginate.py, checked under SpecPage.                *)
(***************************************************************************)
RECURSIVE Flatten(_)
Flatten(ps) == IF ps = << >> THEN << >> ELSE Head(ps) \o Flatten(Tail(ps))

\* C9: the pages given to the consumer so far, concatenated, are the first
\* rows of the table in the table's order (so no row twice); when the
\* generator is exhausted they are exactly the table, and the last
\* paginate_users call, the one after the last page that was yielded,
\* returned the empty page.
C9_PagesAreTheTable ==
    /\ Len(Flatten(pages)) <= Len(table)
    /\ Flatten(pages) = SubSeq(table, 1, Len(Flatten(pages)))
    /\ pg_pc = "done" =>
          /\ Flatten(pages) = table
          /\ page = << >>
          /\ pg_calls = Len(pages) + 1
          /\ \A i, j \in 1..Len(Flatten(pages)) :
                i # j => Flatten(pages)[i] # Flatten(pages)[j]

\* A table that takes several pages, the last of them not full.
C9_Witness ==
    /\ pg_pc = "done"
    /\ Len(pages) >= 2
    /\ Len(pages[Len(pages)]) < page_size
    /\ Len(table) = MaxRows

\* ceil(r / p) for p >= 1
CeilDiv(r, p) == (r + p - 1) \div p

\* paginate_users calls, pages and connections of one consumption of
\* lazy_pagination(page_size): never more than ceil(R / p) + 1 calls; every
\* page yielded has between 1 and p rows; a call that has returned has closed
\* the connection it opened, so at most one connection is open; once the
\* generator is exhausted there have been ceil(R / p) + 1 calls and
\* ceil(R / p) pages.
PageCounts ==
    /\ pg_calls <= CeilDiv(Len(table), page_size) + 1
    /\ Len(pages) <= CeilDiv(Len(table), page_size)
    /\ \A i \in DOMAIN pages : Len(pages[i]) \in 1..page_size
    /\ pg_opened - pg_closed \in {0, 1}
    /\ pg_opened <= pg_calls
    /\ pg_pc \in {"test", "yielded", "done"} =>
          (pg_opened = pg_calls /\ pg_closed = pg_calls)
    /\ pg_pc = "connect" => pg_opened = pg_closed
    /\ pg_pc = "done" =>
          /\ pg_calls = CeilDiv(Len(table), page_size) + 1
          /\ Len(pages) = CeilDiv(Len(table), page_size)

\* C22: over a table of R rows that does not change, a consumer that keeps
\* asking lazy_pagination(p), p >= 1, for pages reaches the end of the
\* generator (or an exception of the database leaves it), after exactly
\* ceil(R / p) + 1 calls of paginate_users and ceil(R / p) pages, each of 1
\* to p rows; each call that returns has opened one connection and closed it,
\* and at most one connection is open at any time.
C22_TerminatesAfterCeilPlusOneCalls ==
    /\ []PageCounts
    /\ <>(pg_pc \in {"done", "raised"})

\* Three rows in pages of two: three calls, two pages, the second with one
\* row, three connections opened and closed.
C22_Witness ==
    /\ pg_pc = "done"
    /\ Len(table) = 3
    /\ page_size = 2
    /\ pg_calls = 3
    /\ Len(pages) = 2
    /\ Len(pages[2]) = 1
    /\ pg_opened = 3
    /\ pg_closed = 3

(***************************************************************************)
(* 3-concurrent.py                                                         *)
(***************************************************************************)
Tasks == {"users", "older"}
AgeLimit == 40

\* demo_users: the ages, in the order of the list.  The names of the list are
\* in alphabetical order, so the place in the list stands for the name.
DemoAges == <<28, 35, 22, 30, 42, 19, 55, 26, 33, 29,
              48, 52, 41, 38, 45, 50, 27, 43, 31, 46>>

\* The rows executemany inserts when the largest id ever given is base
\* (id INTEGER PRIMARY KEY AUTOINCREMENT).
DemoUsers(base) ==
    [i \in 1..Len(DemoAges) |-> [id |-> base + i, name |-> i, age |-> DemoAges[i]]]

\* The largest id given so far.
LastId(tbl) == IF tbl = << >> THEN 0 ELSE tbl[Len(tbl)].id

EmptyList == [t |-> "list", rows |-> << >>]
List(rows) == [t |-> "list", rows |-> rows]

RECURSIVE ByName(_)
ByName(S) ==
    IF S = {} THEN << >>
    ELSE LET m == CHOOSE r \in S : \A q \in S : r.name <= q.name
         IN  <<m>> \o ByName(S \ {m})

\* SELECT * FROM users ORDER BY name
SelectAll(tbl) == ByName({tbl[i] : i \in 1..Len(tbl)})

RECURSIVE ByAgeDesc(_)
ByAgeDesc(S) ==
    IF S = {} THEN << >>
    ELSE LET m == CHOOSE r \in S :
                     \A q \in S : r.age > q.age \/ (r.age = q.age /\ r.id <= q.id)
         IN  <<m>> \o ByAgeDesc(S \ {m})

\* SELECT * FROM users WHERE age > ? ORDER BY age DESC
SelectOlder(tbl, limit) ==
    ByAgeDesc({tbl[i] : i \in {j \in 1..Len(tbl) : tbl[j].age > limit}})

\* The statement of each coroutine.
Select(t, tbl) == IF t = "users" THEN SelectAll(tbl) ELSE SelectOlder(tbl, AgeLimit)

NewTask == [pc |-> "new", open |-> FALSE, raised |-> FALSE, rows |-> << >>,
            res |-> None]
Started == [pc |-> "connect", open |-> FALSE, raised |-> FALSE, rows |-> << >>,
            res |-> None]

\* await asyncio.gather(...): the awaiting coroutine goes on when every
\* awaited coroutine has returned
GatherReady_any(ts) == \E t \in ts : a_task[t].pc = "done"
GatherReady(ts) == \A t \in ts : a_task[t].pc = "done"

\* The results in the order of gather's arguments, here by task.
Results == [t \in Tasks |-> a_task[t].res]

\* A line main prints for one result of the collecting gather.
Report(kind, n) == [kind |-> kind, n |-> n]

\* The script is not run.
AsyncOff ==
    /\ a_table = << >>
    /\ a_openable = TRUE
    /\ a_setup = "not run"
    /\ a_exists = FALSE
    /\ a_main = "off"
    /\ a_task = [t \in Tasks |-> NewTask]
    /\ a_fc = [t \in Tasks |-> None]
    /\ a_seq = [t \in Tasks |-> None]
    /\ a_conc = [t \in Tasks |-> None]
    /\ a_results = [t \in Tasks |-> None]
    /\ a_report = [t \in Tasks |-> Report("nothing", 0)]

\* The script starts: sample_database.db cannot be opened, or does not exist
\* yet, or is the file an earlier run of the script has left (one that was
\* killed before the finally clause of main).
AsyncInit ==
    /\ a_openable \in BOOLEAN
    /\ a_exists \in IF a_openable THEN BOOLEAN ELSE {FALSE}
    /\ a_table = IF a_exists THEN DemoUsers(0) ELSE << >>
    /\ a_setup = "not run"
    /\ a_main = "setup"
    /\ a_task = [t \in Tasks |-> NewTask]
    /\ a_fc = [t \in Tasks |-> None]
    /\ a_seq = [t \in Tasks |-> None]
    /\ a_conc = [t \in Tasks |-> None]
    /\ a_results = [t \in Tasks |-> None]
    /\ a_report = [t \in Tasks |-> Report("nothing", 0)]

\* Whether the database is locked by the connection a failed setup left.
SetupLock == a_setup = "failed, locked"

\* main: setup_sample_database(db_name) -- the table is created if it is not
\* there, emptied and filled with demo_users, and the connection is closed; or
\* sqlite3.Error is caught and printed and main goes on with the file as it
\* is: unchanged when connect or CREATE TABLE raised, with the table created
\* (CREATE TABLE is committed at once) and its rows as before when DELETE,
\* INSERT or commit raised.  The except clause skips conn.close(): after a
\* commit that found the database locked the connection stays open with its
\* lock.  Then fetch_concurrently() starts its gather
setup_sample_database ==
    /\ a_main = "setup"
    /\ \/ /\ a_openable
          /\ a_table' = DemoUsers(LastId(a_table))
          /\ a_exists' = TRUE
          /\ a_setup' = "seeded"
       \/ /\ a_openable
          /\ a_exists' = TRUE
          /\ a_setup' \in {"failed", "failed, locked"}
          /\ UNCHANGED a_table
       \/ /\ a_setup' = "failed"
          /\ UNCHANGED <<a_table, a_exists>>
    /\ a_main' = "fc_gather"
    /\ a_task' = [t \in Tasks |-> Started]
    /\ UNCHANGED <<a_openable, a_fc, a_seq, a_conc, a_results, a_report,
                   decoVars, pageVars, extraVars>>

\* The garbage collector frees the connection the failed setup left open:
\* its transaction is rolled back and its lock released.
setup_connection_freed ==
    /\ SetupLock
    /\ a_setup' = "failed"
    /\ UNCHANGED <<a_table, a_openable, a_exists, a_main, a_task, a_fc, a_seq,
                   a_conc, a_results, a_report, decoVars, pageVars, extraVars>>

\* async with aiosqlite.connect(db_name) as db -- a file that cannot be
\* opened raises OperationalError inside the try: no connection is held
task_connect(t) ==
    /\ a_task[t].pc = "connect"
    /\ a_task' = IF a_openable
                 THEN [a_task EXCEPT ![t].pc = "execute", ![t].open = TRUE]
                 ELSE [a_task EXCEPT ![t].pc = "raised", ![t].raised = TRUE]
    /\ UNCHANGED <<a_table, a_openable, a_setup, a_exists, a_main, a_fc, a_seq, a_conc, a_results,
                   a_report, decoVars, pageVars,
                   extraVars>>

\* The statement of a coroutine raises OperationalError: no such table, or
\* the database is locked.
StatementRaises == ~a_exists \/ SetupLock

\* async with db.execute(...) as cursor
task_execute(t) ==
    /\ a_task[t].pc = "execute"
    /\ a_task' = [a_task EXCEPT ![t].pc = IF StatementRaises THEN "raised"
                                          ELSE "fetchall",
                                ![t].raised = StatementRaises]
    /\ UNCHANGED <<a_table, a_openable, a_setup, a_exists, a_main, a_fc, a_seq, a_conc, a_results,
                   a_report, decoVars, pageVars,
                   extraVars>>

\* users = await cursor.fetchall()
task_fetchall(t) ==
    /\ a_task[t].pc = "fetchall"
    /\ a_task' = [a_task EXCEPT ![t].pc = "close", ![t].rows = Select(t, a_table)]
    /\ UNCHANGED <<a_table, a_openable, a_setup, a_exists, a_main, a_fc, a_seq, a_conc, a_results,
                   a_report, decoVars, pageVars,
                   extraVars>>

\* the async with block of the connection is left, with the rows or by the
\* exception of the statement: __aexit__ awaits db.close(); the connection is
\* closed while the coroutine is suspended and the other coroutine may run
task_close(t) ==
    /\ a_task[t].pc \in {"close", "raised"}
    /\ a_task[t].open
    /\ a_task' = [a_task EXCEPT ![t].open = FALSE]
    /\ UNCHANGED <<a_table, a_openable, a_setup, a_exists, a_main, a_fc, a_seq,
                   a_conc, a_results, a_report, decoVars, pageVars, extraVars>>

\* the coroutine is resumed after the async with blocks: return users
task_return(t) ==
    /\ a_task[t].pc = "close"
    /\ ~a_task[t].open
    /\ a_task' = [a_task EXCEPT ![t].pc = "done",
                                ![t].res = List(a_task[t].rows)]
    /\ UNCHANGED <<a_table, a_openable, a_setup, a_exists, a_main, a_fc, a_seq, a_conc, a_results,
                   a_report, decoVars, pageVars,
                   extraVars>>

\* the exception reaches the except clause, once the connection, when one
\* was opened, is closed: except Exception as e: print(...); return []
task_except(t) ==
    /\ a_task[t].pc = "raised"
    /\ ~a_task[t].open
    /\ a_task' = [a_task EXCEPT ![t].pc = "done", ![t].res = EmptyList]
    /\ UNCHANGED <<a_table, a_openable, a_setup, a_exists, a_main, a_fc, a_seq, a_conc, a_results,
                   a_report, decoVars, pageVars,
                   extraVars>>

\* fetch_concurrently: all_users, older_users = await asyncio.gather(...);
\* return all_users, older_users.  Then main displays them and
\* demonstrate_sequential_vs_concurrent starts: await async_fetch_users()
fetch_concurrently_join ==
    /\ a_main = "fc_gather"
    /\ GatherReady(Tasks)
    /\ a_fc' = Results
    /\ a_main' = "fc_returned"
    /\ UNCHANGED <<a_table, a_openable, a_setup, a_exists, a_task, a_seq, a_conc, a_results,
                   a_report, decoVars, pageVars,
                   extraVars>>

\* demonstrate_sequential_vs_concurrent: users_seq = await async_fetch_users()
\* is started
sequential_start ==
    /\ a_main = "fc_returned"
    /\ a_task' = [t \in Tasks |-> IF t = "users" THEN Started ELSE NewTask]
    /\ a_main' = "seq_users"
    /\ UNCHANGED <<a_table, a_openable, a_setup, a_exists, a_fc, a_seq, a_conc, a_results, a_report,
                   decoVars, pageVars,
                   extraVars>>

\* users_seq = await async_fetch_users() is done;
\* older_seq = await async_fetch_older_users() is started
sequential_users_done ==
    /\ a_main = "seq_users"
    /\ a_task["users"].pc = "done"
    /\ a_seq' = [a_seq EXCEPT !["users"] = a_task["users"].res]
    /\ a_task' = [a_task EXCEPT !["older"] = Started]
    /\ a_main' = "seq_older"
    /\ UNCHANGED <<a_table, a_openable, a_setup, a_exists, a_fc, a_conc, a_results, a_report,
                   decoVars, pageVars,
                   extraVars>>

\* older_seq = await async_fetch_older_users() is done; the gather of the
\* concurrent run is started
sequential_older_done ==
    /\ a_main = "seq_older"
    /\ a_task["older"].pc = "done"
    /\ a_seq' = [a_seq EXCEPT !["older"] = a_task["older"].res]
    /\ a_task' = [t \in Tasks |-> Started]
    /\ a_main' = "conc_gather"
    /\ UNCHANGED <<a_table, a_openable, a_setup, a_exists, a_fc, a_conc, a_results, a_report,
                   decoVars, pageVars,
                   extraVars>>

\* users_conc, older_conc = await asyncio.gather(...);
\* return (users_seq, older_seq), (users_conc, older_conc)
concurrent_join ==
    /\ a_main = "conc_gather"
    /\ GatherReady(Tasks)
    /\ a_conc' = Results
    /\ a_main' = "compared"
    /\ UNCHANGED <<a_table, a_openable, a_setup, a_exists, a_task, a_fc, a_seq, a_results, a_report,
                   decoVars, pageVars,
                   extraVars>>

\* main: results = await asyncio.gather(..., return_exceptions=True) is started
collect_start ==
    /\ a_main = "compared"
    /\ a_task' = [t \in Tasks |-> Started]
    /\ a_main' = "collect_gather"
    /\ UNCHANGED <<a_table, a_openable, a_setup, a_exists, a_fc, a_seq, a_conc, a_results, a_report,
                   decoVars, pageVars,
                   extraVars>>

\* results = await asyncio.gather(..., return_exceptions=True)
collect_join ==
    /\ a_main = "collect_gather"
    /\ GatherReady(Tasks)
    /\ a_results' = Results
    /\ a_main' = "collected"
    /\ UNCHANGED <<a_table, a_openable, a_setup, a_exists, a_task, a_fc, a_seq, a_conc, a_report,
                   decoVars, pageVars,
                   extraVars>>

\* for i, result in enumerate(results): if isinstance(result, Exception):
\* "Query i failed" else "Query i returned len(result) records"
collect_report ==
    /\ a_main = "collected"
    /\ a_report' = [t \in Tasks |->
                      IF a_results[t].t = "exc"
                      THEN Report("failed", 0)
                      ELSE Report("returned", Len(a_results[t].rows))]
    /\ a_main' = "end"
    /\ UNCHANGED <<a_table, a_openable, a_setup, a_exists, a_task, a_fc, a_seq, a_conc, a_results,
                   decoVars, pageVars,
                   extraVars>>

\* main: finally: if os.path.exists(db_name): os.remove(db_name) -- the file
\* is removed.  A path that cannot be opened as a database is a directory,
\* and os.remove raises and the exception leaves main; or it is something
\* else (a dangling link, a link to a directory), that is not there or is
\* removed, and main returns
main_finally ==
    /\ a_main = "end"
    /\ \/ /\ a_openable
          /\ a_table' = << >>
          /\ a_exists' = FALSE
          /\ a_main' = "removed"
       \/ /\ ~a_openable
          /\ a_main' \in {"removed", "raised"}
          /\ UNCHANGED <<a_table, a_exists>>
    /\ UNCHANGED <<a_openable, a_setup, a_task, a_fc, a_seq, a_conc, a_results,
                   a_report, decoVars, pageVars, extraVars>>

(***************************************************************************)
(* Claims about 3-concurrent.py, checked under SpecAsync.                  *)
(***************************************************************************)
\* C10: in every interleaving of the two coroutines, when the gather of
\* fetch_concurrently or of demonstrate_sequential_vs_concurrent has returned,
\* both coroutines have returned and the gather's results are theirs; and on
\* the table setup_sample_database has seeded, the number of rows each of them
\* returned, in either gather, is the number the same coroutine returned when
\* the two were awaited one after the other: the rows its statement selects.
C10_JoinAfterBothSameCounts ==
    /\ a_main \in {"fc_returned", "compared"} =>
          \A t \in Tasks : a_task[t].pc = "done" /\ ~a_task[t].open
    /\ a_main = "fc_returned" =>
          \A t \in Tasks : a_fc[t] = a_task[t].res /\ a_fc[t].t = "list"
    /\ a_main = "compared" =>
          \A t \in Tasks : a_conc[t] = a_task[t].res /\ a_conc[t].t = "list"
    /\ (a_main = "compared" /\ a_setup = "seeded") =>
          \A t \in Tasks :
             /\ Len(a_conc[t].rows) = Len(a_seq[t].rows)
             /\ Len(a_fc[t].rows) = Len(a_seq[t].rows)
             /\ Len(a_seq[t].rows) = Len(Select(t, a_table))

\* Both runs are over, on the table of demo_users: 20 rows, 9 of them older
\* than 40, the oldest first.
C10_Witness ==
    /\ a_main = "compared"
    /\ a_setup = "seeded"
    /\ Len(a_conc["users"].rows) = Len(DemoAges)
    /\ Len(a_conc["older"].rows) = 9
    /\ Len(a_seq["older"].rows) = 9
    /\ a_conc["older"].rows[1].age = 55

\* C11 as stated: after the gather with return_exceptions=True, main reports
\* every coroutine by itself: one whose statement raised as failed, one whose
\* statement succeeded with the number of rows the statement selects.
C11_EachOutcomeReported ==
    a_main = "end" =>
        \A t \in Tasks :
            IF a_task[t].raised
            THEN a_report[t].kind = "failed"
            ELSE a_report[t] = Report("returned", Len(Select(t, a_table)))

(***************************************************************************)
(* 0-stream_users.py, 4-stream_ages.py                                     *)
(***************************************************************************)
Generators == {"stream_users", "stream_user_ages"}
StreamAges == {25, 30}

\* The contents of user_data: at most MaxRows rows.
StreamTables ==
    UNION {{[i \in 1..n |-> [user_id |-> i, age |-> f[i]]] :
               f \in [1..n -> StreamAges]} : n \in 0..MaxRows}

\* cursor.execute("SELECT * FROM user_data") with dictionary rows, and
\* cursor.execute("SELECT age FROM user_data;") with tuple rows: the rows
\* the cursor iterates over
CursorRows(g, tbl) ==
    IF g = "stream_users" THEN tbl ELSE [i \in DOMAIN tbl |-> <<tbl[i].age>>]

\* yield row -- and: for (age,) in cursor: yield age
YieldValue(g, row) == IF g = "stream_users" THEN row ELSE row[1]

\* for row in cursor: the loop ends when the cursor has no row left
CursorExhausted_afterFirst(pos, rows) == pos >= Min(1, Len(rows))
CursorExhausted(pos, rows) == pos >= Len(rows)

StreamOff ==
    /\ st_table = << >>
    /\ st_gen = "stream_users"
    /\ st_pc = "idle"
    /\ st_pos = 0
    /\ st_yielded = << >>
    /\ st_conn = "none"
    /\ st_cursor = "none"

\* The table is whatever was seeded; nothing changes it while the script runs.
StreamInit ==
    /\ st_table \in StreamTables
    /\ st_gen = "stream_users"
    /\ st_pc = "idle"
    /\ st_pos = 0
    /\ st_yielded = << >>
    /\ st_conn = "none"
    /\ st_cursor = "none"

\* The consumer calls the generator function g and asks for the first value:
\* the body starts and connects.  mysql.connector.connect raises when it
\* fails; seed.connect_to_prodev returns None instead, and
\* connection.cursor() then raises AttributeError.  Either way the exception
\* leaves the generator.
stream_connect(g) ==
    /\ st_pc = "idle"
    /\ st_gen' = g
    /\ \/ st_conn' = "open" /\ st_pc' = "execute"
       \/ st_pc' = "raised" /\ UNCHANGED st_conn
    /\ UNCHANGED <<st_table, st_pos, st_yielded, st_cursor, decoVars, pageVars,
                   asyncVars, seedVars,
                   raceVars>>

\* cursor = connection.cursor(...); cursor.execute(...) -- an execute that
\* raises leaves the generator with the connection open
stream_execute ==
    /\ st_pc = "execute"
    /\ st_cursor' = "open"
    /\ \/ st_pc' = "loop"
       \/ st_pc' = "raised"
    /\ UNCHANGED <<st_table, st_gen, st_pos, st_yielded, st_conn, decoVars,
                   pageVars, asyncVars, seedVars,
                   raceVars>>

\* for row in cursor: yield row -- the next row is taken and given to the
\* consumer, or the loop ends
stream_next ==
    /\ st_pc = "loop"
    /\ IF CursorExhausted(st_pos, CursorRows(st_gen, st_table))
       THEN /\ st_pc' = "close"
            /\ UNCHANGED <<st_pos, st_yielded>>
       ELSE /\ st_pos' = st_pos + 1
            /\ st_yielded' = Append(st_yielded,
                   YieldValue(st_gen, CursorRows(st_gen, st_table)[st_pos + 1]))
            /\ st_pc' = "yielded"
    /\ UNCHANGED <<st_table, st_gen, st_conn, st_cursor, decoVars, pageVars,
                   asyncVars, seedVars,
                   raceVars>>

\* The consumer asks for the next value: the generator resumes after yield.
stream_resume ==
    /\ st_pc = "yielded"
    /\ st_pc' = "loop"
    /\ UNCHANGED <<st_table, st_gen, st_pos, st_yielded, st_conn, st_cursor,
                   decoVars, pageVars, asyncVars, seedVars,
                   raceVars>>

\* The consumer drops the generator instead: GeneratorExit is raised at the
\* yield, and nothing after the loop runs.
stream_abandon ==
    /\ st_pc = "yielded"
    /\ st_pc' = "abandoned"
    /\ UNCHANGED <<st_table, st_gen, st_pos, st_yielded, st_conn, st_cursor,
                   decoVars, pageVars, asyncVars, seedVars,
                   raceVars>>

\* cursor.close(); connection.close(); the generator ends (StopIteration)
stream_close ==
    /\ st_pc = "close"
    /\ st_cursor' = "closed"
    /\ st_conn' = "closed"
    /\ st_pc' = "done"
    /\ UNCHANGED <<st_table, st_gen, st_pos, st_yielded, decoVars, pageVars,
                   asyncVars, seedVars,
                   raceVars>>

(***************************************************************************)
(* Claims about 0-stream_users.py and 4-stream_ages.py, under SpecStream.  *)
(***************************************************************************)
\* The values the generator yields when it is consumed to its end.
StreamValues ==
    [i \in DOMAIN st_table |->
        YieldValue(st_gen, CursorRows(st_gen, st_table)[i])]

\* C12: what the consumer has been given is, at every moment, the first
\* values of the cursor in cursor order, one per row taken; when the
\* generator has ended, it is every row, and the cursor and the connection
\* are closed; while the cursor has rows that were not yielded, the connection
\* that was opened is still open.
C12_StreamsEveryRowThenCloses ==
    /\ Len(st_yielded) = st_pos
    /\ st_pos <= Len(st_table)
    /\ st_yielded = SubSeq(StreamValues, 1, st_pos)
    /\ st_pc = "done" =>
          /\ st_yielded = StreamValues
          /\ st_cursor = "closed"
          /\ st_conn = "closed"
    /\ (st_conn # "none" /\ st_pos < Len(st_table)) => st_conn = "open"
    /\ st_conn = "closed" => st_pc = "done"

\* stream_user_ages consumed to its end over a full table with two ages.
C12_Witness ==
    /\ st_pc = "done"
    /\ st_gen = "stream_user_ages"
    /\ Len(st_yielded) = MaxRows
    /\ st_yielded[1] # st_yielded[MaxRows]
    /\ st_conn = "closed"

(***************************************************************************)
(* seed.py: insert_data                                                    *)
(***************************************************************************)
\* The rows a CSV file with the header name,email,age may hold.  age is
\* DECIMAL NOT NULL in user_data: "abc" is a value the INSERT rejects.
CsvRows == [name : {"Ann"}, email : {"a@x", "b@x"}, age : {"30", "abc"}]
CsvFiles == UNION {[1..n -> CsvRows] : n \in 0..MaxCsvRows}

\* cursor.execute("INSERT INTO user_data ...") raises mysql.connector.Error
InsertRaises(row) == row.age = "abc"

\* user_id = str(uuid.uuid4()): a new identifier for every row; the row that
\* is inserted
NewRow(i, row) ==
    [user_id |-> i, name |-> row.name, email |-> row.email, age |-> row.age]

\* for row in reader: try: ... except mysql.connector.Error: print(...) --
\* the number of rows taken from the reader once row i has been handled,
\* whether its INSERT raised or not (n rows in the file)
RowsTaken_abortOnError(i, n, raised) == IF raised THEN n ELSE i
RowsTaken(i, n, raised) == i

SeedOff ==
    /\ sd_csv = << >>
    /\ sd_pc = "idle"
    /\ sd_i = 0
    /\ sd_attempted = << >>
    /\ sd_errors = 0
    /\ sd_pending = << >>
    /\ sd_table = << >>
    /\ sd_commits = 0

\* user_data has just been created and is empty; the file is the input.
SeedInit ==
    /\ sd_csv \in CsvFiles
    /\ sd_pc = "idle"
    /\ sd_i = 0
    /\ sd_attempted = << >>
    /\ sd_errors = 0
    /\ sd_pending = << >>
    /\ sd_table = << >>
    /\ sd_commits = 0

\* insert_data(connection, csv_file): cursor = connection.cursor(); the file
\* is opened and the reader made
insert_data ==
    /\ sd_pc = "idle"
    /\ sd_pc' = "loop"
    /\ UNCHANGED <<sd_csv, sd_i, sd_attempted, sd_errors, sd_pending, sd_table,
                   sd_commits, decoVars, pageVars, asyncVars, streamVars,
                   raceVars>>

\* for row in reader: one row: the INSERT is executed; when it raises
\* mysql.connector.Error the error is printed and the loop goes on.  (A
\* statement that fails does not end the transaction in MySQL.)
insert_row ==
    /\ sd_pc = "loop"
    /\ sd_i < Len(sd_csv)
    /\ sd_attempted' = Append(sd_attempted, sd_i + 1)
    /\ IF InsertRaises(sd_csv[sd_i + 1])
       THEN /\ sd_errors' = sd_errors + 1
            /\ UNCHANGED sd_pending
       ELSE /\ sd_pending' = Append(sd_pending, NewRow(sd_i + 1, sd_csv[sd_i + 1]))
            /\ UNCHANGED sd_errors
    /\ sd_i' = RowsTaken(sd_i + 1, Len(sd_csv), InsertRaises(sd_csv[sd_i + 1]))
    /\ UNCHANGED <<sd_csv, sd_pc, sd_table, sd_commits, decoVars, pageVars,
                   asyncVars, streamVars,
                   raceVars>>

\* the loop has ended: connection.commit() -- which makes the pending rows
\* persistent, or raises and leaves insert_data
insert_commit ==
    /\ sd_pc = "loop"
    /\ sd_i >= Len(sd_csv)
    /\ sd_commits' = sd_commits + 1
    /\ \/ /\ sd_table' = sd_table \o sd_pending
          /\ sd_pending' = << >>
          /\ sd_pc' = "close"
       \/ /\ sd_pc' = "raised"
          /\ UNCHANGED <<sd_table, sd_pending>>
    /\ UNCHANGED <<sd_csv, sd_i, sd_attempted, sd_errors, decoVars, pageVars,
                   asyncVars, streamVars,
                   raceVars>>

\* cursor.close(); print("Data inserted ...")
insert_close ==
    /\ sd_pc = "close"
    /\ sd_pc' = "done"
    /\ UNCHANGED <<sd_csv, sd_i, sd_attempted, sd_errors, sd_pending, sd_table,
                   sd_commits, decoVars, pageVars, asyncVars, streamVars,
                   raceVars>>

(***************************************************************************)
(* Claims about seed.py, checked under SpecSeed.                           *)
(***************************************************************************)
\* The rows of the file, by number, that the database accepts.
Accepted == {i \in DOMAIN sd_csv : ~InsertRaises(sd_csv[i])}

\* C13: the rows are attempted in file order, one INSERT per row; nothing is
\* persistent before the commit; when insert_data has returned, every row of
\* the file has been attempted, also those after a row that was rejected,
\* there was one commit, and the persistent rows are exactly the accepted
\* rows of the file, in file order, each once.
C13_SkipsFailedRowsCommitsRest ==
    /\ sd_attempted = [i \in 1..Len(sd_attempted) |-> i]
    /\ sd_commits = 0 => sd_table = << >>
    /\ sd_pc = "done" =>
          /\ Len(sd_attempted) = Len(sd_csv)
          /\ sd_commits = 1
          /\ sd_errors = Len(sd_csv) - Cardinality(Accepted)
          /\ Len(sd_table) = Cardinality(Accepted)
          /\ \A k \in DOMAIN sd_table :
                /\ sd_table[k].user_id \in Accepted
                /\ sd_table[k] = NewRow(sd_table[k].user_id,
                                        sd_csv[sd_table[k].user_id])
          /\ \A k, l \in DOMAIN sd_table :
                k < l => sd_table[k].user_id < sd_table[l].user_id

\* A file whose first row is rejected and whose last row is accepted.
C13_Witness ==
    /\ sd_pc = "done"
    /\ Len(sd_csv) = MaxCsvRows
    /\ InsertRaises(sd_csv[1])
    /\ ~InsertRaises(sd_csv[MaxCsvRows])
    /\ sd_table # << >>
    /\ sd_table[Len(sd_table)].user_id = MaxCsvRows

(***************************************************************************)
(* 4-cache_query.py: cache_query.wrapper run by two callers at once, each  *)
(* on its own connection.  The callers interleave between the statements   *)
(* of the wrapper; query_cache is the one object they share.               *)
(***************************************************************************)
Callers == {1, 2}

\* query_cache when the callers start: empty, or holding the other string
RaceCaches(q) ==
    {<< >>} \cup {[k \in {o} |-> FetchAll(o, 0)] : o \in Queries \ {q}}

RaceOff ==
    /\ r_cache = << >>
    /\ r_cache0 = << >>
    /\ r_query = "SELECT * FROM users"
    /\ r_pc = [c \in Callers |-> "returned"]
    /\ r_result = [c \in Callers |-> None]
    /\ r_outcome = [c \in Callers |-> Pending]
    /\ r_nexec = 0
    /\ r_writes = << >>

RaceInit ==
    /\ r_query \in Queries
    /\ r_cache \in RaceCaches(r_query)
    /\ r_cache0 = r_cache
    /\ r_pc = [c \in Callers |-> "lookup"]
    /\ r_result = [c \in Callers |-> None]
    /\ r_outcome = [c \in Callers |-> Pending]
    /\ r_nexec = 0
    /\ r_writes = << >>

\* if query in query_cache
race_lookup(c) ==
    /\ r_pc[c] = "lookup"
    /\ r_pc' = [r_pc EXCEPT ![c] = IF CacheHit(r_query, r_cache)
                                   THEN "hit" ELSE "exec"]
    /\ UNCHANGED <<r_cache, r_cache0, r_query, r_result, r_outcome, r_nexec,
                   r_writes, decoVars, pageVars, asyncVars, streamVars,
                   seedVars>>

\* return query_cache[query]
race_hit(c) ==
    /\ r_pc[c] = "hit"
    /\ r_outcome' = [r_outcome EXCEPT ![c] = Returned(r_cache[r_query])]
    /\ r_pc' = [r_pc EXCEPT ![c] = "returned"]
    /\ UNCHANGED <<r_cache, r_cache0, r_query, r_result, r_nexec, r_writes,
                   decoVars, pageVars, asyncVars, streamVars, seedVars>>

\* result = func(conn, query, *args, **kwargs): returns a new list or raises
race_exec(c) ==
    /\ r_pc[c] = "exec"
    /\ r_nexec' = r_nexec + 1
    /\ \/ /\ r_result' = [r_result EXCEPT
                             ![c] = FetchAll(r_query, r_nexec + 1)]
          /\ r_pc' = [r_pc EXCEPT ![c] = "store"]
          /\ UNCHANGED r_outcome
       \/ /\ r_outcome' = [r_outcome EXCEPT
                              ![c] = Raised(Exception("OperationalError",
                                                      r_nexec + 1))]
          /\ r_pc' = [r_pc EXCEPT ![c] = "returned"]
          /\ UNCHANGED r_result
    /\ UNCHANGED <<r_cache, r_cache0, r_query, r_writes, decoVars, pageVars,
                   asyncVars, streamVars, seedVars>>

\* race_store with query_cache.setdefault(query, result): the first write stays
race_store_firstWins(c) ==
    /\ r_pc[c] = "store"
    /\ r_cache' = IF r_query \in DOMAIN r_cache THEN r_cache
                  ELSE CacheStore(r_cache, r_query, r_result[c])
    /\ r_writes' = Append(r_writes, c)
    /\ r_pc' = [r_pc EXCEPT ![c] = "return"]
    /\ UNCHANGED <<r_cache0, r_query, r_result, r_outcome, r_nexec, decoVars,
                   pageVars, asyncVars, streamVars, seedVars>>

\* query_cache[query] = result
race_store(c) ==
    /\ r_pc[c] = "store"
    /\ r_cache' = CacheStore(r_cache, r_query, r_result[c])
    /\ r_writes' = Append(r_writes, c)
    /\ r_pc' = [r_pc EXCEPT ![c] = "return"]
    /\ UNCHANGED <<r_cache0, r_query, r_result, r_outcome, r_nexec, decoVars,
                   pageVars, asyncVars, streamVars, seedVars>>

\* return result
race_return(c) ==
    /\ r_pc[c] = "return"
    /\ r_outcome' = [r_outcome EXCEPT ![c] = Returned(r_result[c])]
    /\ r_pc' = [r_pc EXCEPT ![c] = "returned"]
    /\ UNCHANGED <<r_cache, r_cache0, r_query, r_result, r_nexec, r_writes,
                   decoVars, pageVars, asyncVars, streamVars, seedVars>>

(***************************************************************************)
(* Claims about two concurrent callers of cache_query.wrapper, SpecRace.   *)
(***************************************************************************)
\* C18: two callers that pass the same query string, no key yet, at the same
\* time.  Whatever the interleaving, the string is a key only once a caller
\* has stored, the value under it is the list of the caller that stored last,
\* the other keys are as they were, and a caller that returns a value returns
\* the list it computed or the list it found stored.  (The interleaving in
\* which both miss and both execute is C18_Witness.)
C18_LastWriteWins ==
    /\ \A k \in DOMAIN r_cache0 :
          k \in DOMAIN r_cache /\ r_cache[k] = r_cache0[k]
    /\ DOMAIN r_cache \subseteq DOMAIN r_cache0 \cup {r_query}
    /\ (r_query \in DOMAIN r_cache) = (r_writes # << >>)
    /\ r_writes # << >> =>
          /\ r_cache[r_query] = r_result[r_writes[Len(r_writes)]]
          /\ r_cache[r_query] # None
    /\ \A c \in Callers :
          r_outcome[c].kind = "return" =>
              \E d \in Callers : /\ r_outcome[c].val = r_result[d]
                                 /\ r_result[d] # None

\* Both callers saw a miss, both executed the wrapped function and both
\* stored; the cache holds the list of the second writer, not of the first.
C18_Witness ==
    /\ \A c \in Callers : r_pc[c] = "returned" /\ r_outcome[c].kind = "return"
    /\ \A c \in Callers : r_outcome[c].val = r_result[c]
    /\ r_nexec = 2
    /\ Len(r_writes) = 2
    /\ r_writes[1] # r_writes[2]
    /\ r_cache[r_query] = r_result[r_writes[2]]
    /\ r_cache[r_query] # r_result[r_writes[1]]

DecoInit == FrameInit /\ CacheInit /\ RetryInit /\ DbInit

Init == DecoInit /\ PageOff /\ AsyncOff /\ StreamOff /\ SeedOff /\ RaceOff

NextCache ==
    \/ \E q \in Queries, p \in Params : cache_call(q, p)
    \/ cache_lookup
    \/ cache_exec
    \/ cache_store
    \/ cache_finally
    \/ cache_deliver

SpecCache == Init /\ [][NextCache]_vars

NextRetry ==
    \/ \E n \in 0..MaxRetries, k \in 0..MaxRetries : retry_call(n, k)
    \/ retry_loop
    \/ retry_try
    \/ retry_except
    \/ retry_finally
    \/ retry_deliver

SpecRetry == Init /\ [][NextRetry]_vars

NextConn ==
    \/ \E uid \in UserIds : conn_call(uid)
    \/ conn_func
    \/ conn_finally
    \/ conn_deliver

SpecConn == Init /\ [][NextConn]_vars

NextTx ==
    \/ \E uid \in UserIds, email \in NewEmails : tx_call(uid, email)
    \/ tx_func
    \/ tx_commit
    \/ tx_except
    \/ tx_finally
    \/ tx_deliver

SpecTx == Init /\ [][NextTx]_vars

InitPage ==
    DecoInit /\ PageInit /\ AsyncOff /\ StreamOff /\ SeedOff /\ RaceOff

NextPage ==
    \/ \E p \in 1..MaxPageSize : lazy_pagination(p)
    \/ paginate_connect
    \/ paginate_execute
    \/ paginate_close
    \/ lazy_yield
    \/ lazy_resume

SpecPage == InitPage /\ [][NextPage]_vars

NextAsync ==
    \/ setup_sample_database
    \/ setup_connection_freed
    \/ \E t \in Tasks : task_connect(t)
    \/ \E t \in Tasks : task_execute(t)
    \/ \E t \in Tasks : task_fetchall(t)
    \/ \E t \in Tasks : task_close(t)
    \/ \E t \in Tasks : task_return(t)
    \/ \E t \in Tasks : task_except(t)
    \/ fetch_concurrently_join
    \/ sequential_start
    \/ sequential_users_done
    \/ sequential_older_done
    \/ concurrent_join
    \/ collect_start
    \/ collect_join
    \/ collect_report
    \/ main_finally

InitAsync ==
    DecoInit /\ PageOff /\ AsyncInit /\ StreamOff /\ SeedOff /\ RaceOff

SpecAsync == InitAsync /\ [][NextAsync]_vars

InitStream ==
    DecoInit /\ PageOff /\ AsyncOff /\ StreamInit /\ SeedOff /\ RaceOff

NextStream ==
    \/ \E g \in Generators : stream_connect(g)
    \/ stream_execute
    \/ stream_next
    \/ stream_resume
    \/ stream_abandon
    \/ stream_close

SpecStream == InitStream /\ [][NextStream]_vars

InitSeed ==
    DecoInit /\ PageOff /\ AsyncOff /\ StreamOff /\ SeedInit /\ RaceOff

NextSeed ==
    \/ insert_data
    \/ insert_row
    \/ insert_commit
    \/ insert_close

SpecSeed == InitSeed /\ [][NextSeed]_vars

InitRace ==
    DecoInit /\ PageOff /\ AsyncOff /\ StreamOff /\ SeedOff /\ RaceInit

NextRace ==
    \/ \E c \in Callers : race_lookup(c)
    \/ \E c \in Callers : race_hit(c)
    \/ \E c \in Callers : race_exec(c)
    \/ \E c \in Callers : race_store(c)
    \/ \E c \in Callers : race_return(c)

SpecRace == InitRace /\ [][NextRace]_vars

\* SpecPage with a consumer that goes on asking for the next page and an
\* interpreter that goes on running: a full consumption of the generator.
SpecPageFair == SpecPage /\ WF_vars(NextPage)

====
